---------------------------- MODULE Spec2Model ----------------------------
(***************************************************************************)
(* A model of the content-generation module (src/content.py) of the mCH    *)
(* browser and of the plot routes of src/frontend.py that call it.         *)
(*                                                                         *)
(* Encodings.  A float is a rational <<num, den>> with den > 0; the float  *)
(* NaN (pandas' null) is the empty tuple <<>>.  A Python string the code   *)
(* parses or prefix-matches is a tuple of one-character strings.  The      *)
(* outcome of a call is a record [kind, exc, value]: kind "return" with    *)
(* the value returned, or kind "raise" with the exception's class name.    *)
(***************************************************************************)
EXTENDS Integers, Sequences, FiniteSets, TLC

VARIABLES dataDir,   \* the DATA_DIR tree the functions read (read-only)
          op,        \* the operation last called
          args,      \* its arguments
          result,    \* its outcome
          cache,     \* the memoization store: key -> value and expiry time
          clock,     \* the time, in seconds
          nav,       \* the links of the registered 'frontend_top' navbar
          threads    \* the memoized calls in flight, one per worker thread

server == <<cache, clock, nav, threads>>

vars == <<dataDir, op, args, result, cache, clock, nav, threads>>

---------------------------------------------------------------------------
(* Floats *)

NaN == <<>>

Num(n) == <<n, 1>>

IsNaN(a) == a = <<>>

\* Python's a < b on floats: False when either side is NaN.
Lt(a, b) == ~IsNaN(a) /\ ~IsNaN(b) /\ a[1] * b[2] < b[1] * a[2]

Gt(a, b) == Lt(b, a)

\* Python's a == b on floats: False when either side is NaN.
Eq(a, b) == ~IsNaN(a) /\ ~IsNaN(b) /\ a[1] * b[2] = b[1] * a[2]

Le(a, b) == Lt(a, b) \/ Eq(a, b)

---------------------------------------------------------------------------
(* Sequences *)

\* The indices of s, ascending.
Indices(s) == [i \in 1..Len(s) |-> i]

Range(s) == {s[i] : i \in 1..Len(s)}

IsPrefix(p, s) == Len(p) =< Len(s) /\ SubSeq(s, 1, Len(p)) = p

RECURSIVE InsertSorted(_, _)
\* x put into the ascending sequence of non-NaN floats s, after its equals.
InsertSorted(x, s) ==
    IF s = <<>> THEN <<x>>
    ELSE IF Lt(x, Head(s)) THEN <<x>> \o s
    ELSE <<Head(s)>> \o InsertSorted(x, Tail(s))

RECURSIVE SortFloats(_)
SortFloats(s) ==
    IF s = <<>> THEN <<>>
    ELSE InsertSorted(s[Len(s)], SortFloats(SubSeq(s, 1, Len(s) - 1)))

\* Series.dropna(): the non-NaN entries, in order.
DropNa(s) == SelectSeq(s, LAMBDA a : ~IsNaN(a))

---------------------------------------------------------------------------
(* pandas' quantile, interpolation='linear' (the default) *)

\* The fraction t of the way from a to b, for 0 <= tn/td <= 1.
Lerp(a, b, tn, td) ==
    <<a[1] * b[2] * td + tn * (b[1] * a[2] - a[1] * b[2]), td * a[2] * b[2]>>

\* The quantile without interpolation: the lower of the two neighbours.
QuantileStepLower(s, p) == s[((p[1] * (Len(s) - 1)) \div p[2]) + 1]

QuantileStep(s, p) ==
    LET n == Len(s)
        h == p[1] * (n - 1)          \* the position (n-1)*p, times p[2]
        i == h \div p[2]
        r == h % p[2]
    IN  IF r = 0 THEN s[i + 1] ELSE Lerp(s[i + 1], s[i + 2], r, p[2])

\* Series.quantile(p) for p = <<pn, pd>> in [0, 1]: NaN values are skipped;
\* NaN when no value is left.
Quantile(values, p) ==
    LET s == SortFloats(DropNa(values))
    IN  IF s = <<>> THEN NaN ELSE QuantileStep(s, p)

---------------------------------------------------------------------------
(* Outcomes of a call *)

Return(v) == [kind |-> "return", exc |-> "", value |-> v]

Raise(e) == [kind |-> "raise", exc |-> e, value |-> <<>>]

Returned(r) == r.kind = "return"

---------------------------------------------------------------------------
(* The data directory.  dataDir[species] is a record                       *)
(*   exists : whether DATA_DIR/<species> is a directory;                   *)
(*   tsne   : tsne_points_ordered.csv, [readable, rows], each row          *)
(*            [samp, cluster_ordered, biosample, cluster_ortholog] with    *)
(*            the strings the csv reader yields;                           *)
(*   mch    : the files of DATA_DIR/<species>/mch in glob's order, each    *)
(*            [name, rows], each row [samp, original, normalized];         *)
(*   genes  : the rows of gene_names.sqlite3, each [geneID, geneName].     *)
(* dataDir.homologous is mm_hs_homologous_cluster.txt, [readable, rows],   *)
(* each row <<mouse cluster, human cluster>>.                              *)

species_exists(dir, species) == dir[species].exists

\* glob.glob('<DATA_DIR>/<species>/mch/<gene>*'): the files whose name
\* starts with gene, in glob's order.
GlobMch(dir, species, gene) ==
    SelectSeq(dir[species].mch, LAMBDA f : IsPrefix(gene, f.name))

gene_exists(dir, species, gene) ==
    dir[species].exists /\ GlobMch(dir, species, gene) # <<>>

\* None (isNone) or the list of the table's rows.
get_cluster_points(dir, species) ==
    IF ~species_exists(dir, species) THEN [isNone |-> TRUE, rows |-> <<>>]
    ELSE IF ~dir[species].tsne.readable THEN [isNone |-> TRUE, rows |-> <<>>]
    ELSE [isNone |-> FALSE, rows |-> dir[species].tsne.rows]

---------------------------------------------------------------------------
(* get_gene_mch: join, outlier cut, sort *)

\* The rows one left row yields in pandas.merge(left, right, on='samp',
\* how='left'): one per right row with its samp, in the right table's
\* order, or a single row with null values when there is none.
MergeRow(l, right) ==
    LET hits == SelectSeq(right, LAMBDA r : r.samp = l.samp)
    IN  IF hits = <<>>
        THEN << [samp |-> l.samp, cluster_ordered |-> l.cluster_ordered,
                 cluster_ortholog |-> l.cluster_ortholog,
                 original |-> NaN, normalized |-> NaN] >>
        ELSE [k \in 1..Len(hits) |->
                 [samp |-> l.samp, cluster_ordered |-> l.cluster_ordered,
                  cluster_ortholog |-> l.cluster_ortholog,
                  original |-> hits[k].original,
                  normalized |-> hits[k].normalized]]

RECURSIVE MergeLeft(_, _)
MergeLeft(left, right) ==
    IF left = <<>> THEN <<>>
    ELSE MergeRow(Head(left), right) \o MergeLeft(Tail(left), right)

Column(frame, f) == [i \in 1..Len(frame) |-> frame[i][f]]

Q99 == <<99, 100>>

\* The cut that keeps the rows equal to the percentile as well.
KeepBelowOrEqual(frame, three_std_dev) ==
    SelectSeq(frame, LAMBDA row : Le(row.normalized, three_std_dev))

\* dataframe_merged[dataframe_merged.normalized < three_std_dev]
KeepBelow(frame, three_std_dev) ==
    SelectSeq(frame, LAMBDA row : Lt(row.normalized, three_std_dev))

\* The outliers=False cut of a frame.
OutlierFilter(frame) ==
    KeepBelow(frame, Quantile(Column(frame, "normalized"), Q99))

Digits == <<"0", "1", "2", "3", "4", "5", "6", "7", "8", "9">>

DigitVal(c) == (CHOOSE i \in 1..Len(Digits) : Digits[i] = c) - 1

RECURSIVE DecimalValue(_)
DecimalValue(tok) ==
    IF tok = <<>> THEN 0
    ELSE 10 * DecimalValue(SubSeq(tok, 1, Len(tok) - 1)) + DigitVal(tok[Len(tok)])

\* pandas.to_numeric(errors='coerce') of one string: its value when it is a
\* run of decimal digits, NaN for the empty string and for any other text.
ToNumeric(tok) ==
    IF tok # <<>> /\ \A i \in 1..Len(tok) : tok[i] \in Range(Digits)
    THEN Num(DecimalValue(tok))
    ELSE NaN

CoerceClusterOrdered(frame) ==
    [i \in 1..Len(frame) |->
        [frame[i] EXCEPT !.cluster_ordered = ToNumeric(frame[i].cluster_ordered)]]

\* astype('category'): the code of a value is its rank among the distinct
\* non-null values of the column, -1 for NaN.
CategoryCode(v, col) ==
    IF IsNaN(v) THEN -1
    ELSE Cardinality({c \in Range(DropNa(col)) : Lt(c, v)})

RECURSIVE InsertIdx(_, _, _)
InsertIdx(i, idx, codes) ==
    IF idx = <<>> THEN <<i>>
    ELSE IF codes[i] < codes[Head(idx)] THEN <<i>> \o idx
    ELSE <<Head(idx)>> \o InsertIdx(i, Tail(idx), codes)

RECURSIVE ArgSort(_, _)
\* The indices 1..n ordered by ascending code, equal codes in row order.
ArgSort(codes, n) ==
    IF n = 0 THEN <<>> ELSE InsertIdx(n, ArgSort(codes, n - 1), codes)

\* numpy.roll(s, -k)
RollLeft(s, k) == SubSeq(s, k + 1, Len(s)) \o SubSeq(s, 1, k)

\* The sort that leaves the nulls where their code -1 puts them: in front.
SortOrderNullsFirst(col) ==
    ArgSort([i \in 1..Len(col) |-> CategoryCode(col[i], col)], Len(col))

\* sort_values(by='cluster_ordered', ascending=True) on the categorical
\* column: argsort of the codes, then the nulls (code -1, in front) rolled
\* to the end (na_position='last').
SortOrder(col) ==
    LET codes == [i \in 1..Len(col) |-> CategoryCode(col[i], col)]
        cnt_null == Cardinality({i \in 1..Len(col) : IsNaN(col[i])})
    IN  RollLeft(ArgSort(codes, Len(col)), cnt_null)

SortByClusterOrdered(frame) ==
    LET idx == SortOrder(Column(frame, "cluster_ordered"))
    IN  [k \in 1..Len(frame) |-> frame[idx[k]]]

\* Lines 288-304: what get_gene_mch makes of the embedding rows and the
\* measurement rows once both are read.
JoinRecords(cluster, mch, outliers) ==
    LET dataframe_merged == MergeLeft(cluster, mch)
        cut == IF outliers THEN dataframe_merged
               ELSE OutlierFilter(dataframe_merged)
    IN  SortByClusterOrdered(CoerceClusterOrdered(cut))

get_gene_mch(dir, species, gene, outliers) ==
    IF ~species_exists(dir, species) \/ ~gene_exists(dir, species, gene)
    THEN Return(<<>>)
    ELSE LET cluster == get_cluster_points(dir, species)
             file == GlobMch(dir, species, gene)[1]
         IN  IF file.rows = <<>> THEN Raise("EmptyDataError")
             \* DataFrame(None) and DataFrame([]) have no columns:
             \* cluster[['samp', ...]] raises.
             ELSE IF cluster.isNone \/ cluster.rows = <<>> THEN Raise("KeyError")
             ELSE Return(JoinRecords(cluster.rows, file.rows, outliers))

---------------------------------------------------------------------------
(* Lookups the plot builders use *)

UpperCase ==
    <<"A", "B", "C", "D", "E", "F", "G", "H", "I", "J", "K", "L", "M",
      "N", "O", "P", "Q", "R", "S", "T", "U", "V", "W", "X", "Y", "Z">>

LowerCase ==
    <<"a", "b", "c", "d", "e", "f", "g", "h", "i", "j", "k", "l", "m",
      "n", "o", "p", "q", "r", "s", "t", "u", "v", "w", "x", "y", "z">>

\* SQLite's LIKE compares ASCII letters without regard to case.
FoldCase(c) ==
    IF \E i \in 1..Len(UpperCase) : UpperCase[i] = c
    THEN LowerCase[CHOOSE i \in 1..Len(UpperCase) : UpperCase[i] = c]
    ELSE c

RECURSIVE Like(_, _)
\* text LIKE pattern: '%' stands for any run of characters, '_' for any
\* one character.
Like(pattern, text) ==
    IF pattern = <<>> THEN text = <<>>
    ELSE IF Head(pattern) = "%"
    THEN Like(Tail(pattern), text) \/ (text # <<>> /\ Like(pattern, Tail(text)))
    ELSE IF text = <<>> THEN FALSE
    ELSE IF Head(pattern) = "_" THEN Like(Tail(pattern), Tail(text))
    ELSE FoldCase(Head(pattern)) = FoldCase(Head(text))
         /\ Like(Tail(pattern), Tail(text))

\* The first row of gene_names with geneID LIKE query%, as a dict;
\* dict(None) raises when there is none.
gene_id_to_name(dir, species, query) ==
    IF ~species_exists(dir, species) THEN Return(<<>>)
    ELSE LET hits == SelectSeq(dir[species].genes,
                               LAMBDA g : Like(query \o <<"%">>, g.geneID))
         IN  IF hits = <<>> THEN Raise("TypeError") ELSE Return(<<hits[1]>>)

\* geneName = gene_id_to_name(...); geneName = geneName['geneName']
GeneNameOf(dir, species, gene) ==
    LET r == gene_id_to_name(dir, species, gene)
    IN  IF ~Returned(r) THEN r
        ELSE IF r.value = <<>> THEN Raise("TypeError")
        ELSE Return(r.value[1].geneName)

\* The null pair {'mmu_gID': None, 'hsa_gID': None}
NullPair == [mmu_gID |-> "None", hsa_gID |-> "None"]

\* SELECT * FROM orthologs with no WHERE clause.
OrthologRowsAll(rows, query_key, query_value) == rows

\* SELECT * FROM orthologs WHERE <query_key> = <query_value>
OrthologRows(rows, query_key, query_value) ==
    SelectSeq(rows, LAMBDA row : row[query_key] = query_value)

\* dir.orthologs is orthologs.sqlite3: [exists, rows], each row
\* [mmu_gID, hsa_gID].  A missing string argument is "".
find_orthologs(dir, mmu_gid, hsa_gid) ==
    IF mmu_gid = "" /\ hsa_gid = "" THEN Return(NullPair)
    ELSE IF ~dir.orthologs.exists THEN Raise("OperationalError")
    ELSE LET query_key == IF mmu_gid # "" THEN "mmu_gID" ELSE "hsa_gID"
             query_value == IF mmu_gid # "" THEN mmu_gid ELSE hsa_gid
             query_results == OrthologRows(dir.orthologs.rows, query_key,
                                           query_value)
         IN  IF query_results = <<>> THEN Return(NullPair)
             ELSE Return(query_results[1])

RECURSIVE AppendNew(_, _)
\* s extended by the elements of t it does not hold yet, in t's order.
AppendNew(s, t) ==
    IF t = <<>> THEN s
    ELSE AppendNew(IF Head(t) \in Range(s) THEN s ELSE Append(s, Head(t)), Tail(t))

RECURSIVE OrthologPairs(_)
OrthologPairs(rows) ==
    IF rows = <<>> THEN <<>>
    ELSE << <<"mmu", Head(rows)[1]>>, <<"hsa", Head(rows)[2]>> >>
         \o OrthologPairs(Tail(rows))

get_ortholog_cluster_order(dir) ==
    IF ~dir.homologous.readable THEN <<>>
    ELSE AppendNew(<<>>, OrthologPairs(dir.homologous.rows))

---------------------------------------------------------------------------
(* Plot builders.  A chart is modelled by the trace data the builder hands *)
(* to plotly.  A colour taken from the cluster colour list is its 1-based  *)
(* position in that list; 0 stands for the literal 'black'.                *)

MouseClusters == 16

SymbolCount == 8

SupplementaryFirst == 17

SupplementaryLast == 22

\* Python's int() of a csv string: its value for a run of decimal digits,
\* ValueError (here: not IsIntText) otherwise.
IsIntText(tok) == ~IsNaN(ToNumeric(tok))

IntOfText(tok) == ToNumeric(tok)[1]

\* Python's s[i] position (1-based here) for a list of n items and an index
\* i >= -n: negative indices count from the end.
PyIndex(i, n) == IF i < 0 THEN n + i + 1 ELSE i + 1

SetMax(S) == CHOOSE m \in S : \A x \in S : x =< m

\* The trace keys in the order setdefault first sees them.
KeysInOrder(keys) == AppendNew(<<>>, keys)

ClusterSampleNum(point, max_cluster) ==
    IntOfText(point.cluster_ordered)
        + max_cluster * (IntOfText(point.biosample) - 1)

\* Line 361-378: what building the Scattergl of one point raises, "" when
\* nothing.
ClusterPointError(point, max_cluster) ==
    IF ~IsIntText(point.biosample) THEN "ValueError"
    ELSE IF IntOfText(point.cluster_ordered) > max_cluster THEN "IndexError"
    ELSE IF IntOfText(point.biosample) - 1 >= SymbolCount THEN "IndexError"
    ELSE ""

ClusterTrace(points, key, max_cluster) ==
    LET members == SelectSeq(Indices(points),
                       LAMBDA i : ClusterSampleNum(points[i], max_cluster) = key)
        first == points[members[1]]
        cluster_num == IntOfText(first.cluster_ordered)
        biosample == IntOfText(first.biosample) - 1
    IN  [key |-> key,
         cluster_num |-> cluster_num,
         biosample |-> biosample,
         color |-> PyIndex(cluster_num - 1, max_cluster),
         symbol |-> PyIndex(biosample, SymbolCount),
         size |-> 7,
         visible |-> "True",
         x |-> [k \in 1..Len(members) |-> points[members[k]].samp]]

\* Lines 391-396: the treatment of one trace of the supplementary groups.
Supplementary(trace) ==
    [trace EXCEPT !.size = 15,
                  !.symbol = (trace.key % SymbolCount) + 1,
                  !.color = 0,
                  !.visible = "legendonly"]

InSupplementaryRange(key) ==
    SupplementaryFirst =< key /\ key =< SupplementaryLast

ClusterPlot(points, species) ==
    IF \E i \in 1..Len(points) : ~IsIntText(points[i].cluster_ordered)
    THEN Raise("ValueError")
    ELSE
    LET max_cluster ==
            IF species = "mmu" THEN MouseClusters
            ELSE SetMax({IntOfText(points[i].cluster_ordered) :
                            i \in 1..Len(points)}) + 1
        bad == SelectSeq(Indices(points),
                   LAMBDA i : ClusterPointError(points[i], max_cluster) # "")
    IN  IF bad # <<>>
        THEN Raise(ClusterPointError(points[bad[1]], max_cluster))
        ELSE
        LET keys == KeysInOrder(
                [i \in 1..Len(points) |-> ClusterSampleNum(points[i], max_cluster)])
            traces == [k \in 1..Len(keys) |->
                          ClusterTrace(points, keys[k], max_cluster)]
        IN  IF species # "mmu" THEN Return(traces)
            ELSE IF \E i \in SupplementaryFirst..SupplementaryLast :
                        i \notin Range(keys)
            THEN Raise("KeyError")
            ELSE Return([k \in 1..Len(traces) |->
                            IF InSupplementaryRange(traces[k].key)
                            THEN Supplementary(traces[k]) ELSE traces[k]])

get_cluster_plot(dir, species) ==
    LET points == get_cluster_points(dir, species)
    IN  IF points.isNone \/ points.rows = <<>>
        THEN Raise("FailToGraphException")
        ELSE ClusterPlot(points.rows, species)

---------------------------------------------------------------------------
(* get_mch_scatter *)

\* 'grey' or a number
Grey == [grey |-> TRUE, v |-> NaN]

Colour(a) == [grey |-> FALSE, v |-> a]

set_color_by_percentile(this, start, end) ==
    IF IsNaN(this) THEN Grey
    ELSE IF Lt(this, start) THEN Colour(start)
    ELSE IF Gt(this, end) THEN Colour(end)
    ELSE Colour(this)

\* if level == 'normalized': point['normalized'] else: point['original']
LevelValue(point, level) ==
    IF level = "normalized" THEN point.normalized ELSE point.original

\* Lines 523-525: the bounds of the colour scale.
ScatterStart(mch, ptile_start) == Quantile(mch, ptile_start)

ScatterEnd(mch, ptile_end) == Quantile(mch, ptile_end)

\* numpy.arange(start, end, (end - start) / 4) where it has a length: the
\* four values start + k * step, k = 0..3.
Arange4(start, end) == [k \in 1..4 |-> Lerp(start, end, k - 1, 4)]

\* Lines 506-616 for a non-empty list of points; name is the outcome of
\* the gene name lookup of lines 537-538.
ScatterChart(points, level, ptile_start, ptile_end, name) ==
    LET mch == [i \in 1..Len(points) |-> LevelValue(points[i], level)]
        start == ScatterStart(mch, ptile_start)
        end == ScatterEnd(mch, ptile_end)
        mch_colors == [i \in 1..Len(mch) |->
                          set_color_by_percentile(mch[i], start, end)]
    IN  \* arange(nan, nan, nan): "cannot compute length"
        IF IsNaN(start) \/ IsNaN(end) THEN Raise("ValueError")
        \* arange(start, end, 0.0) divides by its step
        ELSE IF Eq(start, end) THEN Raise("ZeroDivisionError")
        ELSE IF ~Returned(name) THEN name
        ELSE Return([start |-> start,
                     end |-> end,
                     mch_colors |-> mch_colors,
                     colorbar_tickval |->
                         Append([Arange4(start, end) EXCEPT ![1] = start], end),
                     geneName |-> name.value])

get_mch_scatter(dir, species, gene, level, ptile_start, ptile_end) ==
    LET points == get_gene_mch(dir, species, gene, TRUE)
    IN  IF ~Returned(points) THEN points
        ELSE IF points.value = <<>> THEN Raise("FailToGraphException")
        ELSE ScatterChart(points.value, level, ptile_start, ptile_end,
                          GeneNameOf(dir, species, gene))

---------------------------------------------------------------------------
(* get_mch_box *)

\* Python's int() of the float cluster_ordered of a joined record.
IntOfFloat(a) == a[1] \div a[2]

\* BoxTrace with the y-values always taken from 'original'.
BoxTraceOriginal(points, key, max_cluster, level) ==
    LET members == SelectSeq(Indices(points),
                       LAMBDA i : IntOfFloat(points[i].cluster_ordered) = key)
    IN  [key |-> key,
         color |-> ((key - 1) % max_cluster) + 1,
         visible |-> "True",
         y |-> [k \in 1..Len(members) |-> points[members[k]].original]]

BoxTrace(points, key, max_cluster, level) ==
    LET members == SelectSeq(Indices(points),
                       LAMBDA i : IntOfFloat(points[i].cluster_ordered) = key)
    IN  [key |-> key,
         color |-> ((key - 1) % max_cluster) + 1,
         visible |-> "True",
         y |-> [k \in 1..Len(members) |-> LevelValue(points[members[k]], level)]]

SupplementaryBox(trace) ==
    [trace EXCEPT !.color = 0, !.visible = "legendonly"]

\* Lines 638-732 for a non-empty list of joined records.
BoxChart(points, species, level, name) ==
    IF \E i \in 1..Len(points) : IsNaN(points[i].cluster_ordered)
    THEN Raise("ValueError")
    ELSE
    LET max_cluster ==
            IF species = "mmu" THEN MouseClusters
            ELSE SetMax({IntOfFloat(points[i].cluster_ordered) :
                            i \in 1..Len(points)}) + 1
        keys == KeysInOrder(
            [i \in 1..Len(points) |-> IntOfFloat(points[i].cluster_ordered)])
        traces == [k \in 1..Len(keys) |->
                      BoxTrace(points, keys[k], max_cluster, level)]
    IN  IF species = "mmu"
           /\ \E i \in SupplementaryFirst..SupplementaryLast : i \notin Range(keys)
        THEN Raise("KeyError")
        ELSE IF ~Returned(name) THEN name
        ELSE Return([traces |->
                         [k \in 1..Len(traces) |->
                             IF species = "mmu" /\ InSupplementaryRange(traces[k].key)
                             THEN SupplementaryBox(traces[k]) ELSE traces[k]],
                     geneName |-> name.value])

get_mch_box(dir, species, gene, level, outliers) ==
    LET points == get_gene_mch(dir, species, gene, outliers)
    IN  IF ~Returned(points) THEN points
        ELSE IF points.value = <<>> THEN Raise("FailToGraphException")
        ELSE BoxChart(points.value, species, level,
                      GeneNameOf(dir, species, gene))

---------------------------------------------------------------------------
(* get_mch_box_two_species *)

\* OrthologBox with the y list taken from every record.
OrthologBoxEveryY(points, level) ==
    LET tagged == SelectSeq(points, LAMBDA q : q.cluster_ortholog # <<>>)
    IN  [x |-> [k \in 1..Len(tagged) |-> tagged[k].cluster_ortholog],
         y |-> [k \in 1..Len(points) |-> points[k][level]]]

\* The x and y lists of one species' Box: the records with a non-empty
\* cluster_ortholog.
OrthologBox(points, level) ==
    LET tagged == SelectSeq(points, LAMBDA q : q.cluster_ortholog # <<>>)
    IN  [x |-> [k \in 1..Len(tagged) |-> tagged[k].cluster_ortholog],
         y |-> [k \in 1..Len(tagged) |-> tagged[k][level]]]

get_mch_box_two_species(dir, gene_mmu, gene_hsa, level, outliers) ==
    LET points_mmu == get_gene_mch(dir, "mmu", gene_mmu, outliers)
        points_hsa == get_gene_mch(dir, "hsa", gene_hsa, outliers)
        cluster_order == get_ortholog_cluster_order(dir)
        name == GeneNameOf(dir, "mmu", gene_mmu)
    IN  IF ~Returned(points_mmu) THEN points_mmu
        ELSE IF ~Returned(points_hsa) THEN points_hsa
        ELSE IF points_mmu.value = <<>> \/ points_hsa.value = <<>>
                \/ cluster_order = <<>>
        THEN Raise("FailToGraphException")
        ELSE IF ~Returned(name) THEN name
        ELSE Return([mmu |-> OrthologBox(points_mmu.value, level),
                     hsa |-> OrthologBox(points_hsa.value, level),
                     geneName |-> name.value])

---------------------------------------------------------------------------
(* generate_cluster_colors.  The string 'hsl(<h>,50%,50%)' is the record   *)
(* of its three numbers.                                                   *)

\* The docstring's limit on num
MaxColors == 35

\* Python's round() of a non-negative rational: to the nearest integer,
\* ties to the even one.
RoundHalfEven(a) ==
    LET q == a[1] \div a[2]
        r == a[1] % a[2]
    IN  IF 2 * r < a[2] THEN q
        ELSE IF 2 * r > a[2] THEN q + 1
        ELSE IF q % 2 = 0 THEN q ELSE q + 1

\* numpy.linspace(0, 360, num): num values from 0 to 360, both included.
Linspace360(num) ==
    [k \in 1..num |-> IF num = 1 THEN Num(0) ELSE <<360 * (k - 1), num - 1>>]

Hsl(h) == [hue |-> RoundHalfEven(h), saturation |-> 50, lightness |-> 50]

\* One of the orders random.sample(c, num) can give: c rotated by shift,
\* then reversed or not.
Sample(c, shift, reversed) ==
    LET n == Len(c)
        rolled == [k \in 1..n |-> c[((k - 1 + shift) % n) + 1]]
    IN  IF reversed THEN [k \in 1..n |-> rolled[n + 1 - k]] ELSE rolled

generate_cluster_colors(num, shift, reversed) ==
    Sample([k \in 1..num |-> Hsl(Linspace360(num)[k])], shift, reversed)

---------------------------------------------------------------------------
(* get_corr_genes.  dataDir[species].corr is top_corr_genes.sqlite3:       *)
(* [hasTable, rows], each row [Gene1, Gene2, Correlation].                 *)

\* LIMIT 50
CorrLimit == 50

RECURSIVE InsertByCorrelation(_, _)
InsertByCorrelation(row, s) ==
    IF s = <<>> THEN <<row>>
    ELSE IF Head(s).Correlation < row.Correlation THEN <<row>> \o s
    ELSE <<Head(s)>> \o InsertByCorrelation(row, Tail(s))

RECURSIVE OrderByCorrelationDesc(_)
\* ORDER BY Correlation DESC; rows of equal correlation in table order.
OrderByCorrelationDesc(rows) ==
    IF rows = <<>> THEN <<>>
    ELSE InsertByCorrelation(rows[Len(rows)],
                             OrderByCorrelationDesc(SubSeq(rows, 1, Len(rows) - 1)))

Limit(s, n) == IF Len(s) > n THEN SubSeq(s, 1, n) ELSE s

\* SELECT Gene2, Correlation FROM corr_genes WHERE Gene1 LIKE query%
\* ORDER BY Correlation DESC LIMIT 50
CorrQuery(rows, query) ==
    Limit(OrderByCorrelationDesc(
              SelectSeq(rows, LAMBDA r : Like(query \o <<"%">>, r.Gene1))),
          CorrLimit)

\* Lines 242-247 for one row: the gene's record with Rank and Corr added.
\* Each call of gene_id_to_name hands back a record of its own (the cache
\* stores and returns copies), so setting Rank on one entry leaves the
\* others alone.
CorrEntry(dir, species, rank, item) ==
    LET geneInfo == gene_id_to_name(dir, species, item.Gene2)
    IN  IF ~Returned(geneInfo) THEN geneInfo
        ELSE IF geneInfo.value = <<>> THEN Raise("TypeError")
        ELSE Return([geneID |-> geneInfo.value[1].geneID,
                     geneName |-> geneInfo.value[1].geneName,
                     Rank |-> rank,
                     Corr |-> item.Correlation])

\* The value 1 of line 250
CorrFailure == [failure |-> TRUE, table_data |-> <<>>]

\* sqlite3.connect (line 233, outside the try) fails when the species
\* directory is missing and creates an empty database when only the file
\* is; every error from line 239 on is turned into the value 1.
get_corr_genes(dir, species, query) ==
    IF ~dir[species].exists THEN Raise("OperationalError")
    ELSE IF ~dir[species].corr.hasTable THEN Return(CorrFailure)
    ELSE LET query_results == CorrQuery(dir[species].corr.rows, query)
             entries == [k \in 1..Len(query_results) |->
                            CorrEntry(dir, species, k, query_results[k])]
         IN  IF \E k \in 1..Len(entries) : ~Returned(entries[k])
             THEN Return(CorrFailure)
             ELSE Return([failure |-> FALSE,
                          table_data |-> [k \in 1..Len(entries) |->
                                             entries[k].value]])

---------------------------------------------------------------------------
(* The memoization cache *)
(* Functions of src/content.py and routes of src/frontend.py are decorated *)
(* with cache.memoize(timeout).  The decorator is Flask-Caching's: the key *)
(* of a call is the function's identity with its arguments; the call reads *)
(* the key, and a reading of None, which is what a missing or an expired   *)
(* key reads as and also what a stored None reads as, makes it run the     *)
(* function and store what it returned for `timeout` seconds.  An          *)
(* exception of the function passes through and nothing is stored.         *)
(* A cached value is a record: kind "none" for Python's None, "message"    *)
(* for a route's plain-text failure message, "value" for anything else a   *)
(* function builds, tagged with the function and the arguments it was      *)
(* built by and for (data is the payload, 0 throughout), and "partial" for *)
(* a value still being built.                                              *)

NavbarTimeout == 1800

PlotTimeout == 3600

NoneValue == [kind |-> "none", f |-> "", a |-> <<>>, data |-> 0]

ValueOf(f, a, data) == [kind |-> "value", f |-> f, a |-> a, data |-> data]

PartialOf(f, a, data) == [kind |-> "partial", f |-> f, a |-> a, data |-> data]

MessageOf(f) == [kind |-> "message", f |-> f, a |-> <<>>, data |-> 0]

EmptyCache == [key \in {} |-> [value |-> NoneValue, expires |-> 0]]

\* A key that ignores which function is called.
CacheKeyOfArguments(f, a) == [f |-> "", a |-> a]

CacheKey(f, a) == [f |-> f, a |-> a]

Unexpired(c, now, key) == key \in DOMAIN c /\ c[key].expires > now

CacheGet(c, now, key) ==
    IF Unexpired(c, now, key) THEN c[key].value ELSE NoneValue

CacheSet(c, now, key, value, timeout) ==
    [k \in DOMAIN c \cup {key} |->
        IF k = key THEN [value |-> value, expires |-> now + timeout]
        ELSE c[k]]

CacheDelete(c, key) == [k \in DOMAIN c \ {key} |-> c[k]]

\* A lookup that takes a stored None for a hit.
MemoFoundStoredNone(c, now, key) == Unexpired(c, now, key)

MemoFound(c, now, key) == CacheGet(c, now, key) # NoneValue

\* A memoized call that stores nothing.
MemoizedUnstored(c, now, key, timeout, outcome) ==
    IF MemoFound(c, now, key)
    THEN [cache |-> c, result |-> Return(CacheGet(c, now, key)), ran |-> FALSE]
    ELSE [cache |-> c, result |-> outcome, ran |-> TRUE]

\* One memoized call from lookup to return; `outcome` is what running the
\* function would give, `ran` whether it was run.
Memoized(c, now, key, timeout, outcome) ==
    IF MemoFound(c, now, key)
    THEN [cache |-> c, result |-> Return(CacheGet(c, now, key)), ran |-> FALSE]
    ELSE IF Returned(outcome)
    THEN [cache |-> CacheSet(c, now, key, outcome.value, timeout),
          result |-> outcome, ran |-> TRUE]
    ELSE [cache |-> c, result |-> outcome, ran |-> TRUE]

---------------------------------------------------------------------------
(* The navbar, frontend.process_navbar *)
(* Runs before every request of the blueprint, behind cache.memoize with   *)
(* no arguments; it registers the navbar and returns None.                 *)

NavbarLinks(ensembles, authenticated) ==
    LET shown == SelectSeq(ensembles,
                           LAMBDA ens : authenticated \/ ens.public_access)
    IN  [i \in 1..Len(shown) |-> shown[i].ensemble_name]

process_navbar(c, now, links, ensembles, authenticated) ==
    LET key == CacheKey("process_navbar", <<>>)
    IN  IF MemoFound(c, now, key)
        THEN [cache |-> c, nav |-> links]
        ELSE [cache |-> CacheSet(c, now, key, NoneValue, NavbarTimeout),
              nav |-> NavbarLinks(ensembles, authenticated)]

---------------------------------------------------------------------------
(* The plot routes of src/frontend.py *)
(* The builders the routes call (get_methylation_scatter, get_snATAC_box,  *)
(* ...) are not in src/content.py: what a builder does is one of           *)
(* BuilderOutcomes, chosen by the environment at each call.                *)

ScatterRoutes == {"plot_methylation_scatter", "plot_snATAC_scatter"}

BoxRoutes == {"plot_mch_box", "plot_snATAC_box", "plot_mch_box_two_ensemble"}

HeatmapRoutes ==
    {"plot_mch_heatmap", "plot_snATAC_heatmap", "plot_mch_heatmap_two_ensemble"}

PlotRoutes == ScatterRoutes \cup BoxRoutes \cup HeatmapRoutes

MemoizedRoutes == {"plot_mch_box", "plot_snATAC_box"}

BuilderOutcomes == {"chart", "FailToGraphException", "ValueError"}

DecimalDigits == {"0", "1", "2", "3", "4", "5", "6", "7", "8", "9"}

\* float(text) of a decimal text: digits with at most one point and at least
\* one digit; any other text of the inputs here raises ValueError.
FloatParses(text) ==
    /\ \A i \in 1..Len(text) : text[i] \in DecimalDigits \cup {"."}
    /\ \E i \in 1..Len(text) : text[i] \in DecimalDigits
    /\ Cardinality({i \in 1..Len(text) : text[i] = "."}) <= 1

Caught(route) ==
    IF route \in ScatterRoutes THEN {"FailToGraphException"}
    ELSE {"FailToGraphException", "ValueError"}

\* What the body of the try statement does: the arguments are evaluated
\* first, float(ptile_start) and float(ptile_end) at the scatter routes.
TryBody(route, ptile_start, ptile_end, built) ==
    IF route \in ScatterRoutes
       /\ ~(FloatParses(ptile_start) /\ FloatParses(ptile_end))
    THEN "ValueError"
    ELSE built

PlotRoute(route, a, ptile_start, ptile_end, built) ==
    LET done == TryBody(route, ptile_start, ptile_end, built)
    IN  IF done = "chart" THEN Return(ValueOf(route, a, 0))
        ELSE IF done \in Caught(route) THEN Return(MessageOf(route))
        ELSE Raise(done)

\* cache.delete_memoized(plot_cluster, ensemble, grouping): no plot_cluster
\* is defined or imported, so evaluating the argument raises NameError
\* before delete_memoized is called.
delete_cluster_cache(c, ensemble, grouping) ==
    [cache |-> c, result |-> Raise("NameError")]

---------------------------------------------------------------------------
(* content.build_hover_text *)
(* Texts are tuples of one-character strings; a label dictionary is the    *)
(* sequence of its items, in insertion order, the values already texts.    *)

Separator == <<"<", "b", "r", ">">>

\* '{k}: {v}<br>'.format(k=k, v=str(v))
FormatLabel(item) == item.k \o <<":", " ">> \o item.v \o Separator

RECURSIVE ConcatLabels(_)
ConcatLabels(labels) ==
    IF labels = <<>> THEN <<>>
    ELSE FormatLabel(Head(labels)) \o ConcatLabels(Tail(labels))

\* str.lstrip(chars) and str.rstrip(chars): chars is a set of characters,
\* every leading (trailing) character that is in it is removed.
RECURSIVE LStrip(_, _)
LStrip(text, chars) ==
    IF text # <<>> /\ Head(text) \in chars THEN LStrip(Tail(text), chars)
    ELSE text

RECURSIVE RStrip(_, _)
RStrip(text, chars) ==
    IF text # <<>> /\ text[Len(text)] \in chars
    THEN RStrip(SubSeq(text, 1, Len(text) - 1), chars)
    ELSE text

Strip(text, chars) == RStrip(LStrip(text, chars), chars)

build_hover_text(labels) == Strip(ConcatLabels(labels), Range(Separator))

---------------------------------------------------------------------------
(* The data directories and arguments the checks range over *)

MaxRows == 3     \* rows of an embedding table
MaxVal == 3      \* measured values are 1..MaxVal

Species == {"mmu", "hsa"}

Levels == {"normalized", "original"}

\* Gene IDs: G1 is a prefix of G10; no file or index row starts with G2.
G1 == <<"g", "1">>

G10 == <<"g", "1", "0">>

G2 == <<"g", "2">>

QueryGenes == {G1, G2}

\* cluster_ordered strings: "2", "10", "x" and the empty string
ClusterTokens == {<<"2">>, <<"1", "0">>, <<"x">>, <<>>}

\* Percentiles 0, 1/2, 4/5 and 1
Ptiles == {<<0, 1>>, <<1, 2>>, <<4, 5>>, <<1, 1>>}

PointRow(s, tok) ==
    [samp |-> s, cluster_ordered |-> tok,
     biosample |-> <<"1">>, cluster_ortholog |-> <<>>]

MchRow(s, v) == [samp |-> s, original |-> Num(10 * v), normalized |-> Num(v)]

\* The tables of n rows, samples 1..n, with cluster_ordered from tokens.
Tables(n, tokens) ==
    {[i \in 1..n |-> PointRow(i, f[i])] : f \in [1..n -> tokens]}

\* A measurement file's rows: sample i with value f[i] when f[i] > 0, and
\* a row of sample 0, which no embedding table holds.
Measured(f, n) ==
    LET idx == SelectSeq([i \in 1..n |-> i], LAMBDA i : f[i] > 0)
    IN  [k \in 1..Len(idx) |-> MchRow(idx[k], f[idx[k]])] \o <<MchRow(0, 1)>>

GeneIndex == <<[geneID |-> G10, geneName |-> "Gad1"]>>

Absent ==
    [exists |-> FALSE, tsne |-> [readable |-> FALSE, rows |-> <<>>],
     mch |-> <<>>, genes |-> <<>>]

Present(readable, rows, mch, genes) ==
    [exists |-> TRUE, tsne |-> [readable |-> readable, rows |-> rows],
     mch |-> mch, genes |-> genes]

NoHomologous == [readable |-> FALSE, rows |-> <<>>]

DataDir(mmu, hsa, homologous) ==
    [mmu |-> mmu, hsa |-> hsa, homologous |-> homologous]

ValueDir(n, f) ==
    DataDir(Present(TRUE, [i \in 1..n |-> PointRow(i, <<"1">>)],
                    <<[name |-> G10, rows |-> Measured(f, n)]>>, GeneIndex),
            Absent, NoHomologous)

\* One species, every sample in cluster "1", every pattern of measured
\* values and unmeasured samples.
ValueDirs ==
    UNION {{ValueDir(n, f) : f \in [1..n -> 0..MaxVal]} : n \in 1..MaxRows}

\* The five samples measured 1, 2, 3, 4 and 100.
ScenarioDir == ValueDir(5, <<1, 2, 3, 4, 100>>)

\* One species, every table of cluster_ordered strings, sample i measured i.
TokenDirs ==
    UNION {{DataDir(Present(TRUE, rows,
                            <<[name |-> G10,
                               rows |-> Measured([i \in 1..n |-> i], n)]>>,
                            GeneIndex),
                    Absent, NoHomologous) :
               rows \in Tables(n, ClusterTokens)} : n \in 1..MaxRows}

\* The states of one species' directory: absent; or present, its table
\* unreadable or of 0..MaxRows rows, its mch directory empty, holding an
\* empty file or a file measuring every sample, its gene index empty or not.
StoreTokens == {<<"1">>, <<"x">>}

StoreTables ==
    {[readable |-> FALSE, rows |-> <<>>]}
    \cup UNION {{[readable |-> TRUE, rows |-> rows] :
                    rows \in Tables(n, StoreTokens)} : n \in 0..MaxRows}

StoreMch(n) ==
    {<<>>,
     <<[name |-> G10, rows |-> <<>>]>>,
     <<[name |-> G10, rows |-> Measured([i \in 1..n |-> i], n)]>>}

SpeciesDirs ==
    {Absent}
    \cup UNION {{[exists |-> TRUE, tsne |-> tsne, mch |-> mch, genes |-> genes] :
                    mch \in StoreMch(Len(tsne.rows)), genes \in {<<>>, GeneIndex}} :
                tsne \in StoreTables}

FewSpeciesDirs ==
    {Absent,
     Present(FALSE, <<>>, <<[name |-> G10, rows |-> Measured(<<1>>, 1)]>>, GeneIndex),
     Present(TRUE, <<PointRow(1, <<"1">>)>>,
             <<[name |-> G10, rows |-> Measured(<<1>>, 1)]>>, GeneIndex)}

Homologous == {NoHomologous, [readable |-> TRUE, rows |-> << <<1, 1>> >>]}

StoreDirs ==
    {DataDir(mmu, hsa, h) :
        mmu \in SpeciesDirs, hsa \in FewSpeciesDirs, h \in Homologous}

---------------------------------------------------------------------------
(* Embedding tables with several clusters and biosamples *)

MaxClusterRows == 2   \* rows of the enumerated cluster tables

\* The decimal string of a number below 100
DecimalText(n) ==
    IF n < 10 THEN <<Digits[n + 1]>>
    ELSE <<Digits[(n \div 10) + 1], Digits[(n % 10) + 1]>>

PointRowOf(s, cluster, biosample, tag) ==
    [samp |-> s, cluster_ordered |-> DecimalText(cluster),
     biosample |-> DecimalText(biosample), cluster_ortholog |-> tag]

\* Cluster numbers 0, 1, 16 and 17; biosample numbers 1, 2 and 9
ClusterNumbers == {0, 1, 16, 17}

BiosampleNumbers == {1, 2, 9}

ClusterTables ==
    UNION {{[i \in 1..n |-> PointRowOf(i, c[i], b[i], <<>>)] :
               c \in [1..n -> ClusterNumbers], b \in [1..n -> BiosampleNumbers]} :
           n \in 1..MaxClusterRows}

\* Mouse clusters 1..6 of biosample 2, whose group indices are 17..22, and
\* cluster 1 of biosample 1.
SecondBiosampleTable ==
    [i \in 1..7 |-> IF i =< 6 THEN PointRowOf(i, i, 2, <<>>)
                    ELSE PointRowOf(i, 1, 1, <<>>)]

\* Clusters 1..6 of biosample 2, cluster 16 of biosample 1 and cluster 0 of
\* biosamples 2 and 1.
ZeroClusterTable ==
    [i \in 1..9 |-> IF i =< 6 THEN PointRowOf(i, i, 2, <<>>)
                    ELSE IF i = 7 THEN PointRowOf(i, 16, 1, <<>>)
                    ELSE IF i = 8 THEN PointRowOf(i, 0, 2, <<>>)
                    ELSE PointRowOf(i, 0, 1, <<>>)]

\* Clusters 17..22 and twice cluster 1, all of biosample 1.
HighClusterTable ==
    [i \in 1..8 |-> IF i =< 6 THEN PointRowOf(i, 16 + i, 1, <<>>)
                    ELSE PointRowOf(i, 1, 1, <<>>)]

\* Both species hold the table; sample i is measured i.
ClusterDir(table) ==
    LET species == Present(TRUE, table,
                           <<[name |-> G10,
                              rows |-> Measured([i \in 1..Len(table) |-> i],
                                                Len(table))]>>,
                           GeneIndex)
    IN  DataDir(species, species, NoHomologous)

ClusterDirs ==
    {ClusterDir(t) : t \in ClusterTables
                        \cup {SecondBiosampleTable, ZeroClusterTable,
                              HighClusterTable}}

---------------------------------------------------------------------------
(* Embedding tables with ortholog cluster tags *)

MaxTaggedRows == 2   \* rows of the enumerated tagged tables

\* cluster_ortholog strings: none, "1" and "2"
OrthologTags == {<<>>, <<"1">>, <<"2">>}

TaggedTables ==
    UNION {{[i \in 1..n |-> PointRowOf(i, 1, 1, tag[i])] :
               tag \in [1..n -> OrthologTags]} : n \in 1..MaxTaggedRows}

\* Three records: tagged "1", untagged, tagged "2".
MixedTagsTable ==
    <<PointRowOf(1, 1, 1, <<"1">>), PointRowOf(2, 1, 1, <<>>),
      PointRowOf(3, 1, 1, <<"2">>)>>

TaggedSpecies(table) ==
    Present(TRUE, table,
            <<[name |-> G10,
               rows |-> Measured([i \in 1..Len(table) |-> i], Len(table))]>>,
            GeneIndex)

OrthologDirs ==
    {DataDir(TaggedSpecies(m), TaggedSpecies(h), hom) :
        m \in TaggedTables \cup {MixedTagsTable},
        h \in TaggedTables \cup {MixedTagsTable},
        hom \in Homologous}

---------------------------------------------------------------------------
(* Ortholog tables and gene indexes *)

MaxOrthologRows == 2   \* rows of the enumerated ortholog tables

MouseIds == {"m1", "m2"}

HumanIds == {"h1", "h2"}

OrthologTables ==
    {[exists |-> FALSE, rows |-> <<>>]}
    \cup UNION {{[exists |-> TRUE,
                  rows |-> [i \in 1..n |-> [mmu_gID |-> m[i], hsa_gID |-> h[i]]]] :
                    m \in [1..n -> MouseIds], h \in [1..n -> HumanIds]} :
                n \in 0..MaxOrthologRows}

\* Two genes whose IDs both start with g1
TwoGeneIndex ==
    <<[geneID |-> <<"g", "1", "1">>, geneName |-> "Gad2"],
      [geneID |-> G10, geneName |-> "Gad1"]>>

GeneIndexes == {<<>>, GeneIndex, TwoGeneIndex}

\* Queries: g1, g2, G1 and g_
GeneQueries == QueryGenes \cup {<<"G", "1">>, <<"g", "_">>}

LookupDir(mmu, orthologs) ==
    [mmu |-> mmu, hsa |-> Absent, homologous |-> NoHomologous,
     orthologs |-> orthologs]

LookupDirs ==
    {LookupDir(Present(TRUE, <<>>, <<>>, genes), t) :
        genes \in GeneIndexes, t \in OrthologTables}

---------------------------------------------------------------------------
(* Correlation tables *)

MaxCorrRows == 2   \* rows of the enumerated correlation tables

G11 == <<"g", "1", "1">>

G20 == <<"g", "2", "0">>

\* g99 is in no gene index
G99 == <<"g", "9", "9">>

CorrTables ==
    {[hasTable |-> FALSE, rows |-> <<>>]}
    \cup UNION {{[hasTable |-> TRUE,
                  rows |-> [i \in 1..n |->
                               [Gene1 |-> g1[i], Gene2 |-> g2[i],
                                Correlation |-> c[i]]]] :
                    g1 \in [1..n -> {G10, G20}],
                    g2 \in [1..n -> {G10, G11, G99}],
                    c \in [1..n -> 1..2]} :
                n \in 0..MaxCorrRows}

\* CorrLimit + 1 rows of gene g10, correlations 1, 2, 3, ...
LongCorrTable ==
    [hasTable |-> TRUE,
     rows |-> [i \in 1..(CorrLimit + 1) |->
                  [Gene1 |-> G10, Gene2 |-> IF i % 2 = 0 THEN G10 ELSE G11,
                   Correlation |-> i]]]

CorrSpecies(genes, corr) ==
    [exists |-> TRUE, tsne |-> [readable |-> FALSE, rows |-> <<>>],
     mch |-> <<>>, genes |-> genes, corr |-> corr]

CorrDirs ==
    {DataDir(CorrSpecies(TwoGeneIndex, corr), Absent, NoHomologous) :
        corr \in CorrTables \cup {LongCorrTable}}

---------------------------------------------------------------------------
(* The web application: ensembles, requests, time and worker threads *)

MaxEnsembles == 2

MaxTicks == 2

MaxThreads == 2

\* The clock moves in steps of the shorter of the two timeouts.
TickSeconds == NavbarTimeout

EnsembleName(i) == "Ens" \o ToString(i)

\* The rows of the ensembles table of the methylation_data database.
EnsembleTables ==
    UNION {{[i \in 1..n |-> [ensemble_name |-> EnsembleName(i),
                             public_access |-> flags[i]]] :
               flags \in [1..n -> BOOLEAN]} :
           n \in 0..MaxEnsembles}

WebDir(ensembles) ==
    [mmu |-> ClusterDir(SecondBiosampleTable).mmu, hsa |-> Absent,
     homologous |-> NoHomologous, ensembles |-> ensembles]

WebDirs == {WebDir(ensembles) : ensembles \in EnsembleTables}

Groupings == {"cluster", "annotation"}

PercentileTexts == {<<"0", ".", "5">>, <<".">>, <<"a", "b", "c">>}

\* The percentile segments of a route's URL; the box routes have none.
PercentilesOf(route) == IF route \in BoxRoutes THEN {<<>>} ELSE PercentileTexts

\* The memoized calls the worker threads make: function and arguments.
MemoizedCalls ==
    {[f |-> "get_cluster_points", a |-> <<"mmu">>],
     [f |-> "get_cluster_points", a |-> <<"hsa">>],
     [f |-> "get_cluster_plot", a |-> <<"mmu">>]}

Threads == 1..MaxThreads

IdleThread == [pc |-> "idle", f |-> "", a |-> <<>>, rv |-> NoneValue]

---------------------------------------------------------------------------
(* Label dictionaries *)

MaxLabels == 2

LabelKeys == {<<"C", "e", "l", "l">>, <<"b", "i", "o">>, <<"r", "a", "n", "k">>}

LabelValues == {<<"1">>, <<"L", "5", "b">>, <<"r">>, <<>>}

\* The items of a dictionary: no key twice.
LabelDicts ==
    UNION {{labels \in [1..n -> [k : LabelKeys, v : LabelValues]] :
               \A i, j \in 1..n : labels[i].k = labels[j].k => i = j} :
           n \in 0..MaxLabels}

---------------------------------------------------------------------------
(* The state machine: one request at a time against a read-only data      *)
(* directory.  A call leaves its arguments and its outcome in the state;  *)
(* Finish hands the outcome back and awaits the next request.             *)

Idle == op = "idle"

Call(name, a, r) ==
    /\ Idle
    /\ op' = name
    /\ args' = a
    /\ result' = r
    /\ UNCHANGED <<dataDir, server>>

GetClusterPoints ==
    \E species \in Species :
        Call("get_cluster_points", [species |-> species],
             LET points == get_cluster_points(dataDir, species)
             IN  Return(IF points.isNone THEN <<"None">> ELSE <<points.rows>>))

GetGeneMch ==
    \E species \in Species, gene \in QueryGenes, outliers \in BOOLEAN :
        Call("get_gene_mch",
             [species |-> species, gene |-> gene, outliers |-> outliers],
             get_gene_mch(dataDir, species, gene, outliers))

\* The outliers=False cut applied once more, to records it has returned.
ReapplyOutlierFilter ==
    /\ op \in {"get_gene_mch", "outlier_filter"}
    /\ op = "get_gene_mch" => ~args.outliers
    /\ Returned(result)
    /\ op' = "outlier_filter"
    /\ args' = [frame |-> result.value]
    /\ result' = Return(OutlierFilter(result.value))
    /\ UNCHANGED <<dataDir, server>>

GetClusterPlot ==
    \E species \in Species :
        Call("get_cluster_plot", [species |-> species],
             get_cluster_plot(dataDir, species))

GetMchScatter ==
    \E species \in Species, gene \in QueryGenes, level \in Levels,
       ptile_start \in Ptiles, ptile_end \in Ptiles :
        Call("get_mch_scatter",
             [species |-> species, gene |-> gene, level |-> level,
              ptile_start |-> ptile_start, ptile_end |-> ptile_end],
             get_mch_scatter(dataDir, species, gene, level,
                             ptile_start, ptile_end))

GetMchBox ==
    \E species \in Species, gene \in QueryGenes, level \in Levels,
       outliers \in BOOLEAN :
        Call("get_mch_box",
             [species |-> species, gene |-> gene, level |-> level,
              outliers |-> outliers],
             get_mch_box(dataDir, species, gene, level, outliers))

GetMchBoxTwoSpecies ==
    \E gene_mmu \in QueryGenes, gene_hsa \in QueryGenes, level \in Levels,
       outliers \in BOOLEAN :
        Call("get_mch_box_two_species",
             [gene_mmu |-> gene_mmu, gene_hsa |-> gene_hsa, level |-> level,
              outliers |-> outliers],
             get_mch_box_two_species(dataDir, gene_mmu, gene_hsa, level,
                                     outliers))

Finish ==
    /\ ~Idle
    /\ op' = "idle"
    /\ args' = <<>>
    /\ result' = Return(<<>>)
    /\ UNCHANGED <<dataDir, server>>

InitWith(dirs) ==
    /\ dataDir \in dirs
    /\ op = "idle"
    /\ args = <<>>
    /\ result = Return(<<>>)
    /\ cache = EmptyCache
    /\ clock = 0
    /\ nav = <<>>
    /\ threads = [t \in Threads |-> IdleThread]

\* Every operation against the directories of StoreDirs.
Init == InitWith(StoreDirs)

Next ==
    \/ GetClusterPoints
    \/ GetGeneMch
    \/ GetClusterPlot
    \/ GetMchScatter
    \/ GetMchBox
    \/ GetMchBoxTwoSpecies
    \/ Finish

Spec == Init /\ [][Next]_vars

\* get_gene_mch, and its outlier cut re-applied, on ValueDirs and TokenDirs.
InitJoin == InitWith(ValueDirs \cup TokenDirs)

NextJoin ==
    \/ GetGeneMch
    \/ ReapplyOutlierFilter
    \/ Finish

SpecJoin == InitJoin /\ [][NextJoin]_vars

\* get_mch_scatter on ValueDirs and the five-sample scenario.
InitScatter == InitWith(ValueDirs \cup {ScenarioDir})

NextScatter ==
    \/ GetMchScatter
    \/ Finish

SpecScatter == InitScatter /\ [][NextScatter]_vars

GenerateClusterColors ==
    \E num \in 1..MaxColors, shift \in 0..(MaxColors - 1), reversed \in BOOLEAN :
        /\ shift < num
        /\ Call("generate_cluster_colors", [num |-> num],
                Return(generate_cluster_colors(num, shift, reversed)))

FindOrthologs ==
    \E mmu_gid \in MouseIds \cup {""}, hsa_gid \in HumanIds \cup {""} :
        Call("find_orthologs", [mmu_gid |-> mmu_gid, hsa_gid |-> hsa_gid],
             find_orthologs(dataDir, mmu_gid, hsa_gid))

GeneIdToName ==
    \E species \in Species, query \in GeneQueries :
        Call("gene_id_to_name", [species |-> species, query |-> query],
             gene_id_to_name(dataDir, species, query))

\* find_orthologs and gene_id_to_name on LookupDirs.
InitLookup == InitWith(LookupDirs)

NextLookup ==
    \/ FindOrthologs
    \/ GeneIdToName
    \/ Finish

SpecLookup == InitLookup /\ [][NextLookup]_vars

\* generate_cluster_colors for every num the docstring allows.
InitColors == InitWith({DataDir(Absent, Absent, NoHomologous)})

NextColors ==
    \/ GenerateClusterColors
    \/ Finish

SpecColors == InitColors /\ [][NextColors]_vars

\* get_cluster_plot and get_mch_box on ClusterDirs.
InitCluster == InitWith(ClusterDirs)

NextCluster ==
    \/ GetClusterPlot
    \/ GetMchBox
    \/ Finish

SpecCluster == InitCluster /\ [][NextCluster]_vars

\* get_mch_box_two_species on OrthologDirs.
InitOrtholog == InitWith(OrthologDirs)

NextOrtholog ==
    \/ GetMchBoxTwoSpecies
    \/ Finish

SpecOrtholog == InitOrtholog /\ [][NextOrtholog]_vars

GetCorrGenes ==
    \E species \in Species, query \in QueryGenes :
        Call("get_corr_genes", [species |-> species, query |-> query],
             get_corr_genes(dataDir, species, query))

\* get_corr_genes on CorrDirs.
InitCorr == InitWith(CorrDirs)

NextCorr ==
    \/ GetCorrGenes
    \/ Finish

SpecCorr == InitCorr /\ [][NextCorr]_vars

\* A request of a plot route: process_navbar runs first, then the route,
\* behind cache.memoize at the two memoized box routes.
PlotRequest(route) ==
    /\ \E ensemble \in Species, grouping \in {"cluster"},
          ptile_start \in PercentilesOf(route),
          ptile_end \in PercentilesOf(route),
          built \in BuilderOutcomes, authenticated \in BOOLEAN :
          LET before == process_navbar(cache, clock, nav, dataDir.ensembles,
                                       authenticated)
              a == <<ensemble, grouping>>
              outcome == PlotRoute(route, a, ptile_start, ptile_end, built)
              call == IF route \in MemoizedRoutes
                      THEN Memoized(before.cache, clock, CacheKey(route, a),
                                    PlotTimeout, outcome)
                      ELSE [cache |-> before.cache, result |-> outcome,
                            ran |-> TRUE]
          IN  /\ op' = route
              /\ args' = [a |-> a, ptile_start |-> ptile_start,
                          ptile_end |-> ptile_end, ran |-> call.ran]
              /\ result' = call.result
              /\ cache' = call.cache
              /\ nav' = before.nav
    /\ UNCHANGED <<dataDir, clock, threads>>

PlotMethylationScatter ==
    /\ Idle
    /\ PlotRequest("plot_methylation_scatter")

PlotSnATACScatter ==
    /\ Idle
    /\ PlotRequest("plot_snATAC_scatter")

PlotMchBox ==
    /\ Idle
    /\ PlotRequest("plot_mch_box")

PlotSnATACBox ==
    /\ Idle
    /\ PlotRequest("plot_snATAC_box")

PlotMchBoxTwoEnsemble ==
    /\ Idle
    /\ PlotRequest("plot_mch_box_two_ensemble")

PlotMchHeatmap ==
    /\ Idle
    /\ PlotRequest("plot_mch_heatmap")

PlotSnATACHeatmap ==
    /\ Idle
    /\ PlotRequest("plot_snATAC_heatmap")

PlotMchHeatmapTwoEnsemble ==
    /\ Idle
    /\ PlotRequest("plot_mch_heatmap_two_ensemble")

\* Time passes between requests.
Tick ==
    /\ Idle
    /\ clock < MaxTicks * TickSeconds
    /\ clock' = clock + TickSeconds
    /\ UNCHANGED <<dataDir, op, args, result, cache, nav, threads>>

\* The plot routes, within the lifetime of what they memoize.
InitRoutes == InitWith({WebDir(<<>>)})

NextRoutes ==
    \/ PlotMethylationScatter
    \/ PlotSnATACScatter
    \/ PlotMchBox
    \/ PlotSnATACBox
    \/ PlotMchBoxTwoEnsemble
    \/ PlotMchHeatmap
    \/ PlotSnATACHeatmap
    \/ PlotMchHeatmapTwoEnsemble
    \/ Finish

SpecRoutes == InitRoutes /\ [][NextRoutes]_vars

\* The memoized box routes as time passes.
NextBox ==
    \/ PlotMchBox
    \/ PlotSnATACBox
    \/ Tick
    \/ Finish

SpecBox == InitRoutes /\ [][NextBox]_vars

\* A memoized call of content.get_cluster_plot(species, grouping).
MemoGetClusterPlot ==
    /\ Idle
    /\ \E species \in Species, grouping \in Groupings :
          LET a == <<species, grouping>>
              built == get_cluster_plot(dataDir, species)
              outcome == IF Returned(built)
                         THEN Return(ValueOf("get_cluster_plot", a, 0))
                         ELSE built
              call == Memoized(cache, clock, CacheKey("get_cluster_plot", a),
                               PlotTimeout, outcome)
          IN  /\ op' = "memoized_get_cluster_plot"
              /\ args' = [a |-> a, ran |-> call.ran]
              /\ result' = call.result
              /\ cache' = call.cache
    /\ UNCHANGED <<dataDir, clock, nav, threads>>

\* A request of /plot/delete_cache/<ensemble>/<grouping>.
DeleteClusterCache ==
    /\ Idle
    /\ \E ensemble \in Species, grouping \in Groupings,
          authenticated \in BOOLEAN :
          LET before == process_navbar(cache, clock, nav, dataDir.ensembles,
                                       authenticated)
              call == delete_cluster_cache(before.cache, ensemble, grouping)
          IN  /\ op' = "delete_cluster_cache"
              /\ args' = [a |-> <<ensemble, grouping>>, ran |-> TRUE]
              /\ result' = call.result
              /\ cache' = call.cache
              /\ nav' = before.nav
    /\ UNCHANGED <<dataDir, clock, threads>>

\* The cluster plot's cache entries and their invalidation, beside the
\* entries of a memoized route.
InitInvalidate == InitWith({WebDir(<<>>)})

NextInvalidate ==
    \/ MemoGetClusterPlot
    \/ DeleteClusterCache
    \/ PlotMchBox
    \/ Tick
    \/ Finish

SpecInvalidate == InitInvalidate /\ [][NextInvalidate]_vars

BuildHoverText ==
    \E labels \in LabelDicts :
        Call("build_hover_text", [labels |-> labels],
             Return(build_hover_text(labels)))

\* build_hover_text on its own.
InitHover == InitWith({WebDir(<<>>)})

NextHover ==
    \/ BuildHoverText
    \/ Finish

SpecHover == InitHover /\ [][NextHover]_vars

\* A memoized call on a worker thread, in the steps other threads can come
\* between: the call, the lookup, the function's start and its end, the
\* store and the return.
ThreadCall(t) ==
    /\ threads[t].pc = "idle"
    /\ \E call \in MemoizedCalls :
          threads' = [threads EXCEPT ![t] = [pc |-> "get", f |-> call.f,
                                             a |-> call.a, rv |-> NoneValue]]
    /\ UNCHANGED <<dataDir, op, args, result, cache, clock, nav>>

ThreadLookup(t) ==
    /\ threads[t].pc = "get"
    /\ LET key == CacheKey(threads[t].f, threads[t].a)
       IN  threads' = [threads EXCEPT
                          ![t].pc = IF MemoFound(cache, clock, key)
                                    THEN "hit" ELSE "miss",
                          ![t].rv = CacheGet(cache, clock, key)]
    /\ UNCHANGED <<dataDir, op, args, result, cache, clock, nav>>

ThreadBegin(t) ==
    /\ threads[t].pc = "miss"
    /\ threads' = [threads EXCEPT
                      ![t].pc = "running",
                      ![t].rv = PartialOf(threads[t].f, threads[t].a, 0)]
    /\ UNCHANGED <<dataDir, op, args, result, cache, clock, nav>>

ThreadComplete(t) ==
    /\ threads[t].pc = "running"
    /\ threads' = [threads EXCEPT
                      ![t].pc = "computed",
                      ![t].rv = ValueOf(threads[t].f, threads[t].a, 0)]
    /\ UNCHANGED <<dataDir, op, args, result, cache, clock, nav>>

ThreadStore(t) ==
    /\ threads[t].pc = "computed"
    /\ cache' = CacheSet(cache, clock, CacheKey(threads[t].f, threads[t].a),
                         threads[t].rv, PlotTimeout)
    /\ threads' = [threads EXCEPT ![t].pc = "stored"]
    /\ UNCHANGED <<dataDir, op, args, result, clock, nav>>

ThreadReturn(t) ==
    /\ threads[t].pc \in {"hit", "stored"}
    /\ threads' = [threads EXCEPT ![t] = IdleThread]
    /\ UNCHANGED <<dataDir, op, args, result, cache, clock, nav>>

ThreadStep(t) ==
    \/ ThreadLookup(t)
    \/ ThreadBegin(t)
    \/ ThreadComplete(t)
    \/ ThreadStore(t)
    \/ ThreadReturn(t)

\* Memoized calls on concurrent threads as time passes.
InitMemo == InitWith({WebDir(<<>>)})

NextMemo ==
    \/ \E t \in Threads : ThreadCall(t)
    \/ \E t \in Threads : ThreadLookup(t)
    \/ \E t \in Threads : ThreadBegin(t)
    \/ \E t \in Threads : ThreadComplete(t)
    \/ \E t \in Threads : ThreadStore(t)
    \/ \E t \in Threads : ThreadReturn(t)
    \/ Tick

SpecMemo == InitMemo /\ [][NextMemo]_vars

\* A request of a page: process_navbar runs before it, and the page is
\* rendered with the navbar registered then.  `registered` keeps the navbar
\* the request found.
IndexRequest ==
    /\ Idle
    /\ \E authenticated \in BOOLEAN :
          LET before == process_navbar(cache, clock, nav, dataDir.ensembles,
                                       authenticated)
          IN  /\ op' = "index"
              /\ args' = [authenticated |-> authenticated, registered |-> nav]
              /\ result' = Return(before.nav)
              /\ cache' = before.cache
              /\ nav' = before.nav
    /\ UNCHANGED <<dataDir, clock, threads>>

\* Page requests of signed-in and anonymous users as time passes.
InitNavbar == InitWith(WebDirs)

NextNavbar ==
    \/ IndexRequest
    \/ Tick
    \/ Finish

SpecNavbar == InitNavbar /\ [][NextNavbar]_vars

---------------------------------------------------------------------------
(* Properties of get_gene_mch *)

\* The measurement file get_gene_mch reads for the call in the state:
\* glob's first match.
CalledFile == GlobMch(dataDir, args.species, args.gene)[1]

CalledTable == dataDir[args.species].tsne.rows

\* The call in the state is get_gene_mch on an existing species and a gene
\* with a matching measurement file of at least one row.
GeneMchOnData ==
    /\ op = "get_gene_mch"
    /\ species_exists(dataDir, args.species)
    /\ GlobMch(dataDir, args.species, args.gene) # <<>>
    /\ CalledFile.rows # <<>>

RowsOfSamp(records, s) == {k \in 1..Len(records) : records[k].samp = s}

\* C1: for an existing species and a gene whose measurement file holds at
\* least one row, get_gene_mch(species, gene, outliers=True) returns
\* exactly one record per row of the species' embedding table, and the
\* record of a sample without a measurement row has null original and
\* normalized values.
C1_OneRecordPerEmbeddingRow ==
    (GeneMchOnData /\ args.outliers) =>
        /\ Returned(result)
        /\ Len(result.value) = Len(CalledTable)
        /\ \A i \in 1..Len(CalledTable) :
               Cardinality(RowsOfSamp(result.value, CalledTable[i].samp)) = 1
        /\ \A k \in 1..Len(result.value) :
               RowsOfSamp(CalledFile.rows, result.value[k].samp) = {}
                   => /\ IsNaN(result.value[k].original)
                      /\ IsNaN(result.value[k].normalized)

\* C2: get_gene_mch returns the empty list, and does not raise, when the
\* species directory is absent, when no measurement file matches the gene
\* ID prefix, and when the directory exists but get_cluster_points returns
\* None.
C2_EmptyListNeverRaises ==
    (/\ op = "get_gene_mch"
     /\ \/ ~species_exists(dataDir, args.species)
        \/ GlobMch(dataDir, args.species, args.gene) = <<>>
        \/ get_cluster_points(dataDir, args.species).isNone)
    => result = Return(<<>>)

\* The joined set of the call in the state: the left join of the embedding
\* table with the measurement file.
JoinedSet == MergeLeft(CalledTable, CalledFile.rows)

\* C3: with outliers=False a row of the joined set is dropped if and only
\* if its normalized value is strictly greater than the 99th percentile of
\* the non-null normalized values of the joined set.
C3_DroppedIffAboveP99 ==
    (GeneMchOnData /\ ~args.outliers /\ Returned(result) /\ CalledTable # <<>>) =>
        LET p99 == Quantile(Column(JoinedSet, "normalized"), Q99)
        IN  \A i \in 1..Len(JoinedSet) :
                RowsOfSamp(result.value, JoinedSet[i].samp) = {}
                    <=> Gt(JoinedSet[i].normalized, p99)

\* a is b with some of its records left out, the others in b's order.
IsSubList(a, b) == a = SelectSeq(b, LAMBDA row : row \in Range(a))

TokenNumber(tok) ==
    CASE tok = <<"1">> -> Num(1)
      [] tok = <<"2">> -> Num(2)
      [] tok = <<"1", "0">> -> Num(10)
      [] OTHER -> NaN

TokenOfSamp(s) ==
    CalledTable[CHOOSE i \in 1..Len(CalledTable) : CalledTable[i].samp = s]
        .cluster_ordered

\* C5: the records get_gene_mch returns are in ascending numeric order of
\* cluster_ordered (2 before 10), a record whose cluster_ordered is not a
\* number carries the missing value, and those records come after every
\* record with a number.
C5_SortedNumericNullsLast ==
    (op = "get_gene_mch" /\ Returned(result)) =>
        LET records == result.value
        IN  /\ \A k \in 1..Len(records) :
                   records[k].cluster_ordered
                       = TokenNumber(TokenOfSamp(records[k].samp))
            /\ \A j \in 1..Len(records), k \in 1..Len(records) :
                   j < k =>
                       /\ ~Gt(records[j].cluster_ordered, records[k].cluster_ordered)
                       /\ IsNaN(records[j].cluster_ordered)
                              => IsNaN(records[k].cluster_ordered)

\* A table listing "x", "10", "2" comes back as 2, 10, null.
C5_Witness ==
    /\ op = "get_gene_mch"
    /\ Returned(result)
    /\ Len(result.value) = 3
    /\ Column(CalledTable, "cluster_ordered") = << <<"x">>, <<"1", "0">>, <<"2">> >>
    /\ Column(result.value, "cluster_ordered") = <<Num(2), Num(10), NaN>>

\* What holds of the join wherever the embedding table is read and has
\* rows: one record per row, nulls for the unmeasured samples.
JoinKeepsEveryRow ==
    (op = "get_gene_mch" /\ CalledTable # <<>>) => C1_OneRecordPerEmbeddingRow

\* What the outliers=False cut does: it keeps exactly the rows whose
\* normalized value is below the percentile.
CutKeepsBelowP99 ==
    (GeneMchOnData /\ ~args.outliers /\ Returned(result) /\ CalledTable # <<>>) =>
        LET p99 == Quantile(Column(JoinedSet, "normalized"), Q99)
        IN  \A i \in 1..Len(JoinedSet) :
                RowsOfSamp(result.value, JoinedSet[i].samp) # {}
                    <=> Lt(JoinedSet[i].normalized, p99)

---------------------------------------------------------------------------
(* Properties of the plot builders *)

EmptyList(r) == Returned(r) /\ r.value = <<>>

\* The point set the builder called in the state gets from upstream is
\* empty or None.
UpstreamEmpty ==
    CASE op = "get_cluster_plot" ->
             LET points == get_cluster_points(dataDir, args.species)
             IN  points.isNone \/ points.rows = <<>>
      [] op = "get_mch_scatter" ->
             EmptyList(get_gene_mch(dataDir, args.species, args.gene, TRUE))
      [] op = "get_mch_box" ->
             EmptyList(get_gene_mch(dataDir, args.species, args.gene,
                                    args.outliers))
      [] op = "get_mch_box_two_species" ->
             \/ EmptyList(get_gene_mch(dataDir, "mmu", args.gene_mmu,
                                       args.outliers))
             \/ EmptyList(get_gene_mch(dataDir, "hsa", args.gene_hsa,
                                       args.outliers))
             \/ get_ortholog_cluster_order(dataDir) = <<>>
      [] OTHER -> FALSE

\* C6: each plot builder raises FailToGraphException, and no other error,
\* whenever its upstream point set is empty or None; the two-species
\* builder whenever either species' joined set or the ortholog cluster
\* order is empty.
C6_EmptyUpstreamFailsToGraph ==
    UpstreamEmpty => result = Raise("FailToGraphException")

\* The values get_mch_scatter colours in the call of the state.
ScatterValues ==
    LET points == get_gene_mch(dataDir, args.species, args.gene, TRUE).value
    IN  [i \in 1..Len(points) |-> LevelValue(points[i], args.level)]

ScatterOnPoints ==
    /\ op = "get_mch_scatter"
    /\ Returned(get_gene_mch(dataDir, args.species, args.gene, TRUE))
    /\ ScatterValues # <<>>

\* C7: every entry of the marker colour list is 'grey', exactly for the
\* null inputs, or a number v with low <= v <= high, low and high being
\* the ptile_start and ptile_end quantiles of the non-null values; a value
\* below low maps to low, one above high to high, one inside to itself.
C7_ColoursWithinBounds ==
    (ScatterOnPoints /\ Returned(result)) =>
        LET mch == ScatterValues
            low == Quantile(mch, args.ptile_start)
            high == Quantile(mch, args.ptile_end)
            colours == result.value.mch_colors
        IN  /\ Len(colours) = Len(mch)
            /\ \A i \in 1..Len(mch) :
                   /\ colours[i].grey <=> IsNaN(mch[i])
                   /\ ~colours[i].grey =>
                          /\ Le(low, colours[i].v) /\ Le(colours[i].v, high)
                          /\ Lt(mch[i], low) => Eq(colours[i].v, low)
                          /\ Gt(mch[i], high) => Eq(colours[i].v, high)
                          /\ (Le(low, mch[i]) /\ Le(mch[i], high))
                                 => Eq(colours[i].v, mch[i])

\* C8: the clipping bounds satisfy low <= high for every ptile_start and
\* ptile_end in [0, 1] and every value list with a non-null value.
C8_LowNotAboveHigh ==
    (ScatterOnPoints /\ DropNa(ScatterValues) # <<>>) =>
        Le(ScatterStart(ScatterValues, args.ptile_start),
           ScatterEnd(ScatterValues, args.ptile_end))

\* The call of the state clips the values 1, 2, 3, 4, 100 with
\* ptile_start 0 and ptile_end 0.8.
ScenarioCall ==
    /\ ScatterOnPoints
    /\ ScatterValues = <<Num(1), Num(2), Num(3), Num(4), Num(100)>>
    /\ args.ptile_start = <<0, 1>>
    /\ args.ptile_end = <<4, 5>>

\* C9 as stated: clipping 1, 2, 3, 4, 100 at 0 and 0.8 gives low = 1 and
\* high about 3.2 (here: within 0.05 of it), and maps 100 to high.
C9_ScenarioHighNear3_2 ==
    ScenarioCall =>
        /\ Returned(result)
        /\ Eq(result.value.start, Num(1))
        /\ Le(<<315, 100>>, result.value.end) /\ Le(result.value.end, <<325, 100>>)
        /\ Eq(result.value.mch_colors[5].v, result.value.end)

\* C9 as amended: clipping 1, 2, 3, 4, 100 at 0 and 0.8 gives low = 1 and
\* high = 23.2 (4 + 0.2 * (100 - 4)), and maps 100 to 23.2.
C9_ScenarioHigh23_2 ==
    ScenarioCall =>
        /\ Returned(result)
        /\ Eq(result.value.start, Num(1))
        /\ Eq(result.value.end, <<232, 10>>)
        /\ Eq(result.value.mch_colors[5].v, <<232, 10>>)
        /\ \A i \in 1..4 : Eq(result.value.mch_colors[i].v, Num(i))

C9_Witness == ScenarioCall /\ Returned(result)

\* low equals high: ptile_start = ptile_end, or the non-null values are
\* all equal, or every value is null.
LowEqualsHigh ==
    \/ args.ptile_start = args.ptile_end
    \/ \A a \in Range(DropNa(ScatterValues)), b \in Range(DropNa(ScatterValues)) :
           Eq(a, b)

\* C10: when low equals high get_mch_scatter still completes and returns a
\* chart: the tick step (high - low) / 4 = 0 causes no error.
C10_DegenerateScaleCompletes ==
    (ScatterOnPoints /\ LowEqualsHigh) => Returned(result)

---------------------------------------------------------------------------
(* Properties of generate_cluster_colors *)

\* Two colour strings that paint the same colour: hue 360 is hue 0.
SameColour(a, b) ==
    /\ a.hue % 360 = b.hue % 360
    /\ a.saturation = b.saturation
    /\ a.lightness = b.lightness

ColoursCall == op = "generate_cluster_colors"

\* C11: for every num in 1..35 generate_cluster_colors(num) returns exactly
\* num colours at 50% saturation and lightness, a permutation of the num
\* evenly spaced hues, and no two of them are the same colour (hue 0 and
\* hue 360 being one hue).
C11_DistinctColours ==
    ColoursCall =>
        LET c == result.value
            n == args.num
        IN  /\ Len(c) = n
            /\ \A k \in 1..n : \E i \in 1..n : c[i] = Hsl(Linspace360(n)[k])
            /\ \A i \in 1..n : c[i].saturation = 50 /\ c[i].lightness = 50
            /\ \A i, j \in 1..n : i # j => ~SameColour(c[i], c[j])

\* What does hold: num strings, pairwise different as strings.
DistinctColourStrings ==
    ColoursCall =>
        /\ Len(result.value) = args.num
        /\ \A i, j \in 1..args.num : i # j => result.value[i] # result.value[j]

---------------------------------------------------------------------------
(* Properties of get_cluster_plot *)

ClusterPlotCall == op = "get_cluster_plot"

PlotPoints == dataDir[args.species].tsne.rows

ClusterOf(point) == IntOfText(point.cluster_ordered)

BiosampleOf(point) == IntOfText(point.biosample)

\* The traces of the returned chart that hold the point of sample s.
TracesOfSamp(traces, s) ==
    {k \in 1..Len(traces) : \E i \in 1..Len(traces[k].x) : traces[k].x[i] = s}

\* C12: get_cluster_plot builds one trace per distinct (cluster number,
\* biosample index) pair: every point is in exactly one trace, and two
\* points are in the same trace iff they have the same cluster number and
\* the same biosample, for 'mmu' as for every other species.
C12_OneTracePerClusterAndBiosample ==
    (ClusterPlotCall /\ Returned(result)) =>
        LET traces == result.value
            points == PlotPoints
        IN  /\ \A i \in 1..Len(points) :
                   Cardinality(TracesOfSamp(traces, points[i].samp)) = 1
            /\ \A i, j \in 1..Len(points) :
                   (TracesOfSamp(traces, points[i].samp)
                        = TracesOfSamp(traces, points[j].samp))
                   <=> (/\ ClusterOf(points[i]) = ClusterOf(points[j])
                        /\ BiosampleOf(points[i]) = BiosampleOf(points[j]))

\* The traces that did not get the supplementary treatment.
PlainTraces(traces) == {k \in 1..Len(traces) : traces[k].visible = "True"}

SymbolsSuffice ==
    \A i \in 1..Len(PlotPoints) : BiosampleOf(PlotPoints[i]) \in 1..SymbolCount

\* C13: the colour list of get_cluster_plot has an entry for the cluster
\* number of every point: the lookup never falls outside the list, a trace
\* of cluster c >= 1 has the colour at position c, and no two traces of
\* different clusters get the same entry.
C13_ColourOfOwnCluster ==
    (ClusterPlotCall /\ SymbolsSuffice) =>
        /\ result.exc # "IndexError"
        /\ Returned(result) =>
               LET traces == result.value
               IN  /\ \A k \in PlainTraces(traces) :
                          traces[k].cluster_num >= 1
                              => traces[k].color = traces[k].cluster_num
                   /\ \A k, l \in PlainTraces(traces) :
                          traces[k].cluster_num # traces[l].cluster_num
                              => traces[k].color # traces[l].color

ColoursSuffice ==
    args.species = "mmu" =>
        \A i \in 1..Len(PlotPoints) : ClusterOf(PlotPoints[i]) =< MouseClusters

\* C14: the marker symbol of a trace is palette entry (biosample index
\* mod 8), defined for every biosample number 1, 2, 3, ...: no biosample
\* number makes get_cluster_plot fail.
C14_SymbolCyclesOnBiosample ==
    (ClusterPlotCall /\ ColoursSuffice) =>
        /\ result.exc # "IndexError"
        /\ Returned(result) =>
               \A k \in PlainTraces(result.value) :
                   result.value[k].symbol
                       = (result.value[k].biosample % SymbolCount) + 1

\* What does hold: while every biosample number is within 1..8 the symbol
\* is the palette entry of the biosample index.
SymbolOfBiosampleUpToEight ==
    (ClusterPlotCall /\ ColoursSuffice /\ SymbolsSuffice) =>
        /\ result.exc # "IndexError"
        /\ Returned(result) =>
               \A k \in PlainTraces(result.value) :
                   result.value[k].symbol = result.value[k].biosample + 1

---------------------------------------------------------------------------
(* Properties of the supplementary mouse groups *)

MouseScatterCall ==
    /\ ClusterPlotCall
    /\ args.species = "mmu"
    /\ ColoursSuffice
    /\ SymbolsSuffice

BoxCall == op = "get_mch_box"

\* The records get_mch_box is given.
BoxRecords ==
    get_gene_mch(dataDir, args.species, args.gene, args.outliers)

MouseBoxCall ==
    /\ BoxCall
    /\ args.species = "mmu"
    /\ Returned(BoxRecords)
    /\ BoxRecords.value # <<>>

\* C15: for 'mmu', get_cluster_plot and get_mch_box complete for every
\* non-empty data set, give the supplementary treatment (black,
\* legend-only, size 15 in the scatter) to exactly the traces whose group
\* index is in 17..22 and leave every other trace as built.
C15_SupplementaryOnlyWhereTracesExist ==
    /\ MouseScatterCall =>
           /\ Returned(result)
           /\ \A k \in 1..Len(result.value) :
                  LET t == result.value[k]
                  IN  IF InSupplementaryRange(t.key)
                      THEN t.color = 0 /\ t.visible = "legendonly" /\ t.size = 15
                      ELSE t.color # 0 /\ t.visible = "True" /\ t.size = 7
    /\ MouseBoxCall =>
           /\ Returned(result)
           /\ \A k \in 1..Len(result.value.traces) :
                  LET t == result.value.traces[k]
                  IN  IF InSupplementaryRange(t.key)
                      THEN t.color = 0 /\ t.visible = "legendonly"
                      ELSE t.color # 0 /\ t.visible = "True"

\* What does hold: when all six groups 17..22 exist the call returns with
\* exactly those six treated.
AllSixGroups(keys) == \A i \in SupplementaryFirst..SupplementaryLast : i \in keys

SupplementaryWhenAllSixExist ==
    /\ (MouseScatterCall
        /\ AllSixGroups({ClusterSampleNum(PlotPoints[i], MouseClusters) :
                            i \in 1..Len(PlotPoints)}))
           => /\ Returned(result)
              /\ \A k \in 1..Len(result.value) :
                     (InSupplementaryRange(result.value[k].key)
                         <=> result.value[k].visible = "legendonly")
    /\ (MouseBoxCall
        /\ (\A i \in 1..Len(BoxRecords.value) :
               ~IsNaN(BoxRecords.value[i].cluster_ordered))
        /\ AllSixGroups({IntOfFloat(BoxRecords.value[i].cluster_ordered) :
                            i \in 1..Len(BoxRecords.value)}))
           => /\ Returned(result)
              /\ \A k \in 1..Len(result.value.traces) :
                     (InSupplementaryRange(result.value.traces[k].key)
                         <=> result.value.traces[k].visible = "legendonly")

---------------------------------------------------------------------------
(* Properties of get_mch_box *)

RECURSIVE FlattenY(_)
\* The y lists of the traces, one after the other.
FlattenY(traces) ==
    IF traces = <<>> THEN <<>> ELSE Head(traces).y \o FlattenY(Tail(traces))

BoxClusters ==
    {IntOfFloat(BoxRecords.value[i].cluster_ordered) :
        i \in 1..Len(BoxRecords.value)}

---------------------------------------------------------------------------
(* Properties of get_mch_box_two_species *)

TwoSpeciesCall == op = "get_mch_box_two_species"

\* The joined records of one species the builder is given.
TwoSpeciesRecords(species) ==
    get_gene_mch(dataDir, species,
                 IF species = "mmu" THEN args.gene_mmu ELSE args.gene_hsa,
                 args.outliers).value

\* The positions of the records that carry an ortholog cluster tag.
TaggedPositions(records) ==
    SelectSeq(Indices(records), LAMBDA i : records[i].cluster_ortholog # <<>>)

AlignedWithTagged(trace, records) ==
    LET idx == TaggedPositions(records)
    IN  /\ Len(trace.x) = Len(idx)
        /\ Len(trace.y) = Len(idx)
        /\ \A k \in 1..Len(idx) :
               /\ trace.x[k] = records[idx[k]].cluster_ortholog
               /\ trace.y[k] = records[idx[k]][args.level]

\* C17: in the chart get_mch_box_two_species returns, no record without an
\* ortholog cluster tag appears in either trace, and in each trace x and y
\* have the same length, position k of both coming from the k-th tagged
\* record in join order.
C17_TracesHoldTaggedRecordsAligned ==
    (TwoSpeciesCall /\ Returned(result)) =>
        \A species \in Species :
            /\ AlignedWithTagged(result.value[species], TwoSpeciesRecords(species))
            /\ \A k \in 1..Len(result.value[species].x) :
                   result.value[species].x[k] # <<>>

\* A returned chart whose mouse records are tagged, untagged, tagged.
C17_Witness ==
    /\ TwoSpeciesCall
    /\ Returned(result)
    /\ Len(TwoSpeciesRecords("mmu")) = 3
    /\ Len(result.value.mmu.x) = 2
    /\ result.value.mmu.y[1] # result.value.mmu.y[2]

\* A tag is present in the cluster order when it is the decimal string of
\* the cluster number of one of its (species, cluster) entries.
TagInOrder(tag, cluster_order) ==
    \E k \in 1..Len(cluster_order) : ToNumeric(tag) = Num(cluster_order[k][2])

\* C18: every x value of the two box groups get_mch_box_two_species
\* returns is present in the order get_ortholog_cluster_order returns.
C18_CategoriesFromClusterOrder ==
    (TwoSpeciesCall /\ Returned(result)) =>
        \A species \in Species :
            \A k \in 1..Len(result.value[species].x) :
                TagInOrder(result.value[species].x[k],
                           get_ortholog_cluster_order(dataDir))

---------------------------------------------------------------------------
(* Properties of find_orthologs and gene_id_to_name *)

OrthologsCall == op = "find_orthologs"

BothMissing == args.mmu_gid = "" /\ args.hsa_gid = ""

ExactlyOneGiven == (args.mmu_gid = "") # (args.hsa_gid = "")

\* The rows of the ortholog table that hold the given ID.
RowsOfGivenId ==
    {i \in 1..Len(dataDir.orthologs.rows) :
        IF args.mmu_gid # ""
        THEN dataDir.orthologs.rows[i].mmu_gID = args.mmu_gid
        ELSE dataDir.orthologs.rows[i].hsa_gID = args.hsa_gid}

\* C19: find_orthologs returns the null pair when both IDs are missing,
\* whether or not the ortholog table can be read, and when the given ID
\* has no row in the table; when exactly one ID is given and a row
\* matches, it returns such a row, whose field for the queried species is
\* the given ID.
C19_NullPairOrMatchingRow ==
    OrthologsCall =>
        /\ BothMissing => result = Return(NullPair)
        /\ (~BothMissing /\ dataDir.orthologs.exists /\ RowsOfGivenId = {})
               => result = Return(NullPair)
        /\ (ExactlyOneGiven /\ dataDir.orthologs.exists /\ RowsOfGivenId # {})
               => /\ Returned(result)
                  /\ \E i \in RowsOfGivenId :
                         result.value = dataDir.orthologs.rows[i]
                  /\ args.mmu_gid # "" => result.value.mmu_gID = args.mmu_gid
                  /\ args.hsa_gid # "" => result.value.hsa_gID = args.hsa_gid

\* A human ID found in the second row of the table.
C19_Witness ==
    /\ OrthologsCall
    /\ args.mmu_gid = "" /\ args.hsa_gid = "h2"
    /\ Len(dataDir.orthologs.rows) = 2
    /\ RowsOfGivenId = {2}
    /\ Returned(result)
    /\ result.value # NullPair

GeneNameCall == op = "gene_id_to_name"

\* C20: gene_id_to_name never raises: it returns the record of a gene
\* whose ID starts with the query or a failure sentinel, also when the
\* species exists and no gene ID of its index matches.
C20_RecordOrSentinel ==
    GeneNameCall =>
        /\ Returned(result)
        /\ \/ result.value = <<>>
           \/ /\ \E i \in 1..Len(dataDir[args.species].genes) :
                     result.value[1] = dataDir[args.species].genes[i]
              /\ IsPrefix(args.query, result.value[1].geneID)

---------------------------------------------------------------------------
(* Properties of get_corr_genes *)

CorrCall == op = "get_corr_genes"

\* The rows of the correlation table the query selects.
CorrMatches ==
    SelectSeq(dataDir[args.species].corr.rows,
              LAMBDA r : IsPrefix(args.query, r.Gene1))

\* How many of the rows (or entries) hold gene g with correlation c.
RowsWith(g, c) ==
    Cardinality({k \in 1..Len(CorrMatches) :
        CorrMatches[k].Gene2 = g /\ CorrMatches[k].Correlation = c})

EntriesWith(entries, g, c) ==
    Cardinality({i \in 1..Len(entries) :
        entries[i].geneID = g /\ entries[i].Corr = c})

\* entries is the ranked list of the selected rows: the 50 rows of highest
\* correlation (all of them when there are fewer), in non-increasing
\* correlation, entry i with Rank i, each with the correlation of its row
\* and the index record of its row's gene.
RankedList(entries) ==
    /\ Len(entries) = IF Len(CorrMatches) > CorrLimit THEN CorrLimit
                      ELSE Len(CorrMatches)
    /\ \A i \in 1..Len(entries) : entries[i].Rank = i
    /\ \A i \in 1..(Len(entries) - 1) : entries[i].Corr >= entries[i + 1].Corr
    /\ \A i \in 1..Len(entries) :
           /\ EntriesWith(entries, entries[i].geneID, entries[i].Corr)
                  =< RowsWith(entries[i].geneID, entries[i].Corr)
           /\ \E g \in Range(dataDir[args.species].genes) :
                  g.geneID = entries[i].geneID /\ g.geneName = entries[i].geneName
    /\ \A k \in 1..Len(CorrMatches) :
           (\A i \in 1..Len(entries) :
                CorrMatches[k].Correlation > entries[i].Corr
                \/ Len(entries) < CorrLimit)
               => EntriesWith(entries, CorrMatches[k].Gene2,
                              CorrMatches[k].Correlation)
                      = RowsWith(CorrMatches[k].Gene2, CorrMatches[k].Correlation)

\* C21: get_corr_genes returns the failure value 1 or the complete ranked
\* list of at most 50 entries in non-increasing correlation, entry i with
\* Rank i, its row's correlation and its own gene's metadata; it never
\* raises and never returns a partial list.
C21_RankedListOrFailureValue ==
    CorrCall =>
        /\ Returned(result)
        /\ result.value.failure \/ RankedList(result.value.table_data)

\* What does hold: for a species whose directory exists.
RankedListWhereSpeciesExists ==
    (CorrCall /\ dataDir[args.species].exists) =>
        /\ Returned(result)
        /\ result.value.failure \/ RankedList(result.value.table_data)

---------------------------------------------------------------------------
(* Properties of the plot routes *)

PlotCall == op \in PlotRoutes

GraphingErrors == {"FailToGraphException", "ValueError"}

\* C22: at every plot route a FailToGraphException or a ValueError raised
\* while handling the request, the ValueError of converting a percentile
\* segment of the URL included, is caught and answered with the route's
\* plain-text message: neither error leaves a plot route.
C22_PlotRoutesCatchGraphingErrors ==
    PlotCall =>
        /\ ~(result.kind = "raise" /\ result.exc \in GraphingErrors)
        /\ (~(FloatParses(args.ptile_start) /\ FloatParses(args.ptile_end))
            /\ op \in ScatterRoutes)
               => (Returned(result) /\ result.value = MessageOf(op))

\* What does hold: the box, combined box and heatmap routes answer every
\* request, and the scatter routes answer whenever no ValueError is raised.
BoxAndHeatmapRoutesCatchGraphingErrors ==
    (PlotCall /\ op \notin ScatterRoutes) => Returned(result)

ScatterRoutesLetOnlyValueErrorPass ==
    (PlotCall /\ op \in ScatterRoutes /\ ~Returned(result))
        => result.exc = "ValueError"

---------------------------------------------------------------------------
(* Properties of delete_cluster_cache *)

NavbarKey == CacheKey("process_navbar", <<>>)

\* C23: delete_cluster_cache(ensemble, grouping) answers the request and
\* removes the memoized cluster plot of that ensemble and grouping, so that
\* the next cluster plot request for the key is computed anew.
C23_DeleteRemovesClusterPlotEntry ==
    op = "delete_cluster_cache" =>
        /\ Returned(result)
        /\ ~MemoFound(cache, clock, CacheKey("get_cluster_plot", args.a))

\* What does hold: the request leaves every entry of a memoized function or
\* route as it was, the cluster plot's among them.
DeleteLeavesEveryEntry ==
    [][op' = "delete_cluster_cache" =>
          \A key \in DOMAIN cache \ {NavbarKey} :
              key \in DOMAIN cache' /\ cache'[key] = cache[key]]_vars

---------------------------------------------------------------------------
(* Properties of build_hover_text *)

HoverCall == op = "build_hover_text"

LabelText(item) == item.k \o <<":", " ">> \o item.v

RECURSIVE JoinLabels(_)
JoinLabels(labels) ==
    IF labels = <<>> THEN <<>>
    ELSE IF Len(labels) = 1 THEN LabelText(labels[1])
    ELSE LabelText(Head(labels)) \o Separator \o JoinLabels(Tail(labels))

\* C25: build_hover_text returns the entries 'key: value' in dictionary
\* order joined by '<br>', nothing before the first or after the last, and
\* no character of any key or value removed.
C25_EntriesJoinedIntact ==
    HoverCall => result.value = JoinLabels(args.labels)

\* What does hold: the joined text, where the first key starts with none of
\* the characters < b r > and the last value ends with none of them.
EntriesJoinedWhereEndsAreNotStripped ==
    (HoverCall
     /\ (args.labels = <<>>
         \/ (/\ LStrip(args.labels[1].k, Range(Separator)) = args.labels[1].k
             /\ RStrip(args.labels[Len(args.labels)].v, Range(Separator))
                    = args.labels[Len(args.labels)].v)))
        => result.value = JoinLabels(args.labels)

---------------------------------------------------------------------------
(* Properties of memoized calls on concurrent threads *)

\* The thread holds the value its call returns.
Returning(t) == threads[t].pc \in {"hit", "stored"}

EntriesBelongToTheirKeys ==
    \A key \in DOMAIN cache : cache[key].value = ValueOf(key.f, key.a, 0)

---------------------------------------------------------------------------
(* Properties of process_navbar *)

PublicEnsembles ==
    {ens.ensemble_name : ens \in {e \in Range(dataDir.ensembles) : e.public_access}}

PrivateEnsembles ==
    {ens.ensemble_name : ens \in {e \in Range(dataDir.ensembles) : ~e.public_access}}

\* C26: the navbar registered for a request of an anonymous user lists the
\* public ensembles and no other, whatever requests came before it, those
\* of signed-in users within process_navbar's 30 minutes included.
C26_AnonymousNavbarListsPublicEnsemblesOnly ==
    (op = "index" /\ ~args.authenticated) =>
        /\ Range(nav) = PublicEnsembles
        /\ result.value = nav

\* An anonymous request that found the navbar of a signed-in user, with a
\* private ensemble in it, registered less than 30 minutes before.
C26_Witness ==
    /\ op = "index"
    /\ ~args.authenticated
    /\ Range(args.registered) \cap PrivateEnsembles # {}
    /\ clock < NavbarTimeout

---------------------------------------------------------------------------
(* Properties of the memoized box route *)

BoxMessage == MessageOf("plot_mch_box")

BoxKey(a) == CacheKey("plot_mch_box", a)

\* C27: a failure of plot_mch_box is memoized.  The message returned after
\* a FailToGraphException or a ValueError is stored under the request's
\* arguments for an hour; a request with the same arguments before the
\* expiry gets the message without the builder being called, whatever the
\* builder would do now; once the entry has expired the builder is called.
C27_FailureMessageIsMemoized ==
    [][(op = "idle" /\ op' = "plot_mch_box") =>
          LET key == BoxKey(args'.a)
          IN  /\ (args'.ran /\ result' = Return(BoxMessage))
                     => /\ key \in DOMAIN cache'
                        /\ cache'[key] = [value |-> BoxMessage,
                                          expires |-> clock + PlotTimeout]
              /\ (Unexpired(cache, clock, key) /\ cache[key].value = BoxMessage)
                     => /\ ~args'.ran
                        /\ result' = Return(BoxMessage)
                        /\ cache'[key] = cache[key]
              /\ (key \in DOMAIN cache /\ ~Unexpired(cache, clock, key))
                     => args'.ran]_vars

\* A request answered with the memoized message, some time after the
\* failure and before the expiry.
C27_Witness ==
    /\ op = "plot_mch_box"
    /\ ~args.ran
    /\ result = Return(BoxMessage)
    /\ clock > 0

============================================================================
